---- MODULE Spec2Model ----
(***************************************************************************)
(* Email summarizer backend (FastAPI /summarize endpoint).                 *)
(*                                                                         *)
(* The repository holds two versions of the backend, src/main.py and       *)
(* src/sampleSummary.py, and the Streamlit front end src/app.py.  The      *)
(* model follows one inquiry from submission to the APIResponse that is    *)
(* returned, for either backend version.                                   *)
(*                                                                         *)
(* Text is modelled as a sequence of one-character strings, so that the    *)
(* substring tests, the regular expressions, split, replace and strip of   *)
(* the code are computed character by character.                           *)
(***************************************************************************)
EXTENDS Integers, Sequences, FiniteSets, TLC

VARIABLES
    variant,      \* "main" (src/main.py) or "sample" (src/sampleSummary.py)
    validators,   \* TRUE iff `import validators` succeeded (main.py 23-27)
    validUrls,    \* the links validators.url accepts
    pc,           \* "idle", "awaiting" (POST in flight), "done", "rejected"
    email,        \* the inquiry: subject, sender, recipient, body
    via,          \* "none", "ui" (app.py form) or "direct" (POST /summarize)
    sends,        \* number of POSTs issued to the completion API
    history,      \* what each attempt met, oldest first
    outcome,      \* the APIResponse returned to the caller
    escaped,      \* TRUE iff an exception left summarize_email
    trace,        \* the stages of the 200 branch that were executed
    raw_content,  \* the local raw_content of summarize_email, once assigned
    cleaned,      \* the local content of summarize_email, once assigned
    arg,          \* argument of a function applied on its own
    ret           \* its result

vars == <<variant, validators, validUrls, pc, email, via, sends, history,
          outcome, escaped, trace, raw_content, cleaned, arg, ret>>

-----------------------------------------------------------------------------
(* Literals of the code, character by character.                           *)

THINK == <<"<", "t", "h", "i", "n", "k", ">">>
ETHINK == <<"<", "/", "t", "h", "i", "n", "k", ">">>
SUMMARY == <<"S", "U", "M", "M", "A", "R", "Y", ":">>
RISK_LEVEL == <<"R", "I", "S", "K", "_", "L", "E", "V", "E", "L", ":">>
RISK_DETAILS == <<"R", "I", "S", "K", "_", "D", "E", "T", "A", "I", "L", "S", ":">>
NoSummary == <<"N", "o", " ", "s", "u", "m", "m", "a", "r", "y", " ", "a", "v", "a", "i", "l", "a", "b", "l", "e">>
UNKNOWN == <<"U", "N", "K", "N", "O", "W", "N">>
LOW == <<"L", "O", "W">>
MEDIUM == <<"M", "E", "D", "I", "U", "M">>
HIGH == <<"H", "I", "G", "H">>
NoDetails == <<"N", "o", " ", "d", "e", "t", "a", "i", "l", "s", " ", "p", "r", "o", "v", "i", "d", "e", "d">>
Dash == <<" ", "-", " ">>
ErrInvalidFormat == <<"E", "r", "r", "o", "r", ":", " ", "I", "n", "v", "a", "l", "i", "d", " ", "r", "e", "s", "p", "o", "n", "s", "e", " ", "f", "o", "r", "m", "a", "t">>
RiskFormatError == <<"U", "N", "K", "N", "O", "W", "N", " ", "-", " ", "R", "e", "s", "p", "o", "n", "s", "e", " ", "f", "o", "r", "m", "a", "t", " ", "e", "r", "r", "o", "r">>
ErrEmptyResponse == <<"E", "r", "r", "o", "r", ":", " ", "E", "m", "p", "t", "y", " ", "r", "e", "s", "p", "o", "n", "s", "e">>
RiskEmptyResponse == <<"U", "N", "K", "N", "O", "W", "N", " ", "-", " ", "E", "m", "p", "t", "y", " ", "r", "e", "s", "p", "o", "n", "s", "e">>
HTTP_ == <<"h", "t", "t", "p", ":", "/", "/">>
HTTPS_ == <<"h", "t", "t", "p", "s", ":", "/", "/">>

(* Python's None, and a required field that the request body leaves out.   *)
None == "None"
Missing == <<"<missing>">>

-----------------------------------------------------------------------------
(* str methods and re functions, as Python computes them.                  *)

\* the characters str.strip() removes and \S excludes
Whitespace == {" ", "\t", "\n", "\r"}

\* s[i-1:] starts with p   (i is 1-based)
MatchAt(s, p, i) ==
    /\ i >= 1
    /\ i + Len(p) - 1 <= Len(s)
    /\ \A k \in 1..Len(p) : s[i + k - 1] = p[k]

\* s.startswith(p)
startswith(s, p) == MatchAt(s, p, 1)

\* p in s
Contains(s, p) == \E i \in 1..(Len(s) + 1) : MatchAt(s, p, i)

\* s[i-1:]
From(s, i) == SubSeq(s, i, Len(s))

\* s.strip()
RECURSIVE lstrip(_)
lstrip(s) ==
    IF s # <<>> /\ Head(s) \in Whitespace THEN lstrip(Tail(s)) ELSE s

RECURSIVE rstrip(_)
rstrip(s) ==
    IF s # <<>> /\ s[Len(s)] \in Whitespace
    THEN rstrip(SubSeq(s, 1, Len(s) - 1))
    ELSE s

strip(s) == rstrip(lstrip(s))

\* the least element of a set of indices, or 0 when there is none
FirstIn(S) == IF S = {} THEN 0 ELSE CHOOSE k \in S : \A j \in S : k <= j

\* s.find(p, i-1) + 1: the first occurrence of p at or after i, or 0
Find(s, p, i) == FirstIn({k \in i..(Len(s) - Len(p) + 1) : MatchAt(s, p, k)})

\* s.split(sep): the pieces between the non-overlapping occurrences of sep,
\* found from the left; k is the next occurrence at or after i
RECURSIVE SplitFrom(_, _, _)
SplitAt(s, sep, i, k) ==
    IF k = 0 THEN <<From(s, i)>>
    ELSE <<SubSeq(s, i, k - 1)>> \o SplitFrom(s, sep, k + Len(sep))

SplitFrom(s, sep, i) == SplitAt(s, sep, i, Find(s, sep, i))

split(s, sep) == SplitFrom(s, sep, 1)

\* s.replace(old, new): every non-overlapping occurrence, from the left
RECURSIVE ReplaceFrom(_, _, _, _)
ReplaceAt(s, old, new, i, k) ==
    IF k = 0 THEN From(s, i)
    ELSE SubSeq(s, i, k - 1) \o new \o ReplaceFrom(s, old, new, k + Len(old))

ReplaceFrom(s, old, new, i) == ReplaceAt(s, old, new, i, Find(s, old, i))

replace(s, old, new) == ReplaceFrom(s, old, new, 1)

\* the index of the first ">" at or after i, or 0
FirstGt(s, i) == FirstIn({k \in i..Len(s) : s[k] = ">"})

\* the end of the match of <[^>]+> that starts at i, or 0: "<", then every
\* character up to the next ">", of which there must be at least one
TagEnd(s, i) ==
    IF i <= Len(s) /\ s[i] = "<"
    THEN LET j == FirstGt(s, i + 1)
         IN  IF j >= i + 2 THEN j ELSE 0
    ELSE 0

\* re.sub(r'<[^>]+>', '', s): one pass from the left over the original
\* text; k is the start of the next match at or after i
RECURSIVE SubTagsFrom(_, _)
SubTagsAt(s, i, k) ==
    IF k = 0 THEN From(s, i)
    ELSE SubSeq(s, i, k - 1) \o SubTagsFrom(s, TagEnd(s, k) + 1)

SubTagsFrom(s, i) ==
    SubTagsAt(s, i, FirstIn({k \in i..Len(s) : TagEnd(s, k) # 0}))

SubTags(s) == SubTagsFrom(s, 1)

\* s.split('<think>')[-1]
LastPieceFirst(s) == split(s, THINK)[1]

LastPiece(s) ==
    LET pieces == split(s, THINK)
    IN  pieces[Len(pieces)]

\* the regex pass of clean_response
StripTags(s) == SubTags(s)

clean_response(content) ==
    LET c1 == IF Contains(content, THINK) THEN LastPiece(content) ELSE content
        c2 == StripTags(c1)
    IN  strip(replace(c2, <<"\r", "\n">>, <<"\n">>))

-----------------------------------------------------------------------------
(* The 200 branch of summarize_email: required fields, extraction, risk     *)
(* level.                                                                   *)

\* required_fields, in the order of the keys of parsed_data
Fields == <<SUMMARY, RISK_LEVEL, RISK_DETAILS>>

\* all(field in content for field in required_fields)
HasRequiredFieldsAny(content) ==
    \E f \in 1..3 : Contains(content, Fields[f])

HasRequiredFields(content) ==
    \A f \in 1..3 : Contains(content, Fields[f])

\* [line.strip() for line in content.split('\n') if line.strip()]
RECURSIVE StripNonEmpty(_)
StripNonEmpty(ls) ==
    IF ls = <<>> THEN <<>>
    ELSE IF strip(Head(ls)) # <<>>
         THEN <<strip(Head(ls))>> \o StripNonEmpty(Tail(ls))
         ELSE StripNonEmpty(Tail(ls))

Lines(content) == StripNonEmpty(split(content, <<"\n">>))

\* parsed_data before the loop
Defaults == <<NoSummary, UNKNOWN, NoDetails>>

\* value = line.replace(field, "").strip()
FieldValue(line, field) == strip(replace(line, field, <<>>))

\* the body of `for field in parsed_data.keys()` for one line and one field
UpdateFieldFirstWins(parsed, line, f) ==
    IF /\ startswith(line, Fields[f])
       /\ FieldValue(line, Fields[f]) # <<>>
       /\ parsed[f] = Defaults[f]
    THEN [parsed EXCEPT ![f] = FieldValue(line, Fields[f])]
    ELSE parsed

UpdateField(parsed, line, f) ==
    IF /\ startswith(line, Fields[f])
       /\ FieldValue(line, Fields[f]) # <<>>
    THEN [parsed EXCEPT ![f] = FieldValue(line, Fields[f])]
    ELSE parsed

UpdateLine(parsed, line) ==
    UpdateField(UpdateField(UpdateField(parsed, line, 1), line, 2), line, 3)

\* for line in lines: ...
RECURSIVE ParseFrom(_, _)
ParseFrom(parsed, ls) ==
    IF ls = <<>> THEN parsed
    ELSE ParseFrom(UpdateLine(parsed, Head(ls)), Tail(ls))

parsed_data(content) == ParseFrom(Defaults, Lines(content))

\* if risk_level not in ["LOW", "MEDIUM", "HIGH", "UNKNOWN"]: "UNKNOWN"
RiskLevels == {LOW, MEDIUM, HIGH, UNKNOWN}

NormalizeRiskKept(level) == level

NormalizeRisk(level) ==
    IF level \notin RiskLevels THEN UNKNOWN ELSE level

-----------------------------------------------------------------------------
(* Link scanning (main.py).                                                 *)

\* the end of the run of non-whitespace characters that starts at i
RECURSIVE RunEnd(_, _)
RunEnd(s, i) ==
    IF i > Len(s) \/ s[i] \in Whitespace THEN i - 1
    ELSE RunEnd(s, i + 1)

\* the end of the match of https?://\S+ that starts at i, or 0
LinkEnd(s, i) ==
    LET after == IF MatchAt(s, HTTPS_, i) THEN i + Len(HTTPS_)
                 ELSE IF MatchAt(s, HTTP_, i) THEN i + Len(HTTP_)
                 ELSE 0
    IN  IF after # 0 /\ RunEnd(s, after) >= after
        THEN RunEnd(s, after)
        ELSE 0

\* re.findall(r'(https?://\S+)', body)
RECURSIVE FindLinksFrom(_, _)
FindLinksFrom(s, i) ==
    IF i > Len(s) THEN <<>>
    ELSE IF LinkEnd(s, i) # 0
         THEN <<SubSeq(s, i, LinkEnd(s, i))>> \o FindLinksFrom(s, LinkEnd(s, i) + 1)
         ELSE FindLinksFrom(s, i + 1)

extract_links(body) == FindLinksFrom(body, 1)

\* the tag scan_links gives one link
LinkTag(link, has_validators, valid) ==
    IF has_validators /\ link \in valid THEN "SAFE"
    ELSE IF has_validators THEN "INVALID" ELSE "UNKNOWN"

\* scanned_results[link] = tag on a dict that keeps insertion order
DictSetAppend(d, k, v) == Append(d, <<k, v>>)

DictSet(d, k, v) ==
    IF \E i \in 1..Len(d) : d[i][1] = k
    THEN [i \in 1..Len(d) |-> IF d[i][1] = k THEN <<k, v>> ELSE d[i]]
    ELSE Append(d, <<k, v>>)

RECURSIVE ScanFrom(_, _, _, _)
ScanFrom(d, links, has_validators, valid) ==
    IF links = <<>> THEN d
    ELSE ScanFrom(DictSet(d, Head(links), LinkTag(Head(links), has_validators, valid)),
                  Tail(links), has_validators, valid)

scan_links(links, has_validators, valid) ==
    ScanFrom(<<>>, links, has_validators, valid)

-----------------------------------------------------------------------------
(* The objects of the handler.                                              *)

\* APIResponse.link_scan_results: None, or the dict scan_links returned
NoLinks == [some |-> FALSE, items |-> <<>>]
SomeLinks(d) == [some |-> TRUE, items |-> d]

\* APIResponse(summary=..., status=..., risk_assessment=..., error=...,
\*             link_scan_results=...)
APIResponse(summary, status, risk_assessment, error, link_scan_results) ==
    [summary |-> summary, status |-> status, risk_assessment |-> risk_assessment,
     error |-> error, link_scan_results |-> link_scan_results]

\* nothing has been returned yet
NoOutcome == APIResponse(<<>>, "none", <<>>, None, NoLinks)

\* what a piece of the handler does: it returns `value`, or raises an
\* exception of class `cls` whose str() is `msg`; `stages` are the stages of
\* the 200 branch it went through, `raw_content` and `content` the locals of
\* that name, as far as it assigned them
Returned(value, stages) ==
    [raised |-> FALSE, cls |-> "", msg |-> "", value |-> value,
     stages |-> stages, raw_content |-> <<>>, content |-> <<>>]

Raised(cls, msg, stages) ==
    [raised |-> TRUE, cls |-> cls, msg |-> msg, value |-> NoOutcome,
     stages |-> stages, raw_content |-> <<>>, content |-> <<>>]

-----------------------------------------------------------------------------
(* The JSON body of a 200 response.  An envelope gives the type of each     *)
(* value on the path envelope -> choices -> [0] -> message -> content       *)
(* ("absent" for a key that is not there) and the text of the content.      *)

Envelope(top, choices, first, message, content, text) ==
    [top |-> top, choices |-> choices, first |-> first, message |-> message,
     content |-> content, text |-> text]

\* a well-formed envelope around the reply text
WellFormed(text) == Envelope("dict", "list", "dict", "dict", "str", text)

\* what Python raises for value["key"], value being of type t ("" if nothing)
GetItem(t, key) ==
    CASE t = "absent" -> "'" \o key \o "'"
      [] t = "list" -> "list indices must be integers or slices, not str"
      [] t = "str" -> "string indices must be integers"
      [] t = "null" -> "'NoneType' object is not subscriptable"
      [] t = "int" -> "'int' object is not subscriptable"
      [] OTHER -> ""

GetItemClass(t) == IF t = "absent" THEN "KeyError" ELSE "TypeError"

\* what Python raises for `"key" not in value`, value of type t ("" if nothing)
NotInRaises(t) ==
    CASE t = "null" -> "argument of type 'NoneType' is not iterable"
      [] t = "int" -> "argument of type 'int' is not iterable"
      [] OTHER -> ""

\* validate_response(response): the error text, or None.  A str or list that
\* stands where a dict should holds neither "message" nor "content".
validate_response(env) ==
    IF env.top # "dict"
    THEN Returned("Response must be a dictionary.", <<>>)
    ELSE IF env.choices \notin {"list", "empty_list"}
    THEN Returned("Response must contain a 'choices' field with a list.", <<>>)
    ELSE IF env.choices = "empty_list"
    THEN Returned("The 'choices' list is empty.", <<>>)
    ELSE IF NotInRaises(env.first) # ""
    THEN Raised("TypeError", NotInRaises(env.first), <<>>)
    ELSE IF env.first # "dict" \/ env.message = "absent"
    THEN Returned("The first choice must contain a 'message' field with 'content'.", <<>>)
    ELSE IF NotInRaises(env.message) # ""
    THEN Raised("TypeError", NotInRaises(env.message), <<>>)
    ELSE IF env.message # "dict" \/ env.content = "absent"
    THEN Returned("The first choice must contain a 'message' field with 'content'.", <<>>)
    ELSE Returned(None, <<>>)

\* result["choices"][0]["message"]["content"].strip(): the exception it
\* raises, or the stripped text
RawContent(env) ==
    IF env.top # "dict"
    THEN Raised("TypeError", GetItem(env.top, "choices"), <<>>)
    ELSE IF env.choices = "absent"
    THEN Raised("KeyError", GetItem("absent", "choices"), <<>>)
    ELSE IF env.choices = "empty_list"
    THEN Raised("IndexError", "list index out of range", <<>>)
    ELSE IF env.choices = "dict"
    THEN Raised("KeyError", "0", <<>>)
    ELSE IF env.choices \in {"null", "int"}
    THEN Raised("TypeError", GetItem(env.choices, "0"), <<>>)
    ELSE IF env.first # "dict" \/ env.message = "absent"
    THEN Raised(GetItemClass(IF env.first = "dict" THEN "absent" ELSE env.first),
                GetItem(IF env.first = "dict" THEN "absent" ELSE env.first, "message"), <<>>)
    ELSE IF env.message # "dict" \/ env.content = "absent"
    THEN Raised(GetItemClass(IF env.message = "dict" THEN "absent" ELSE env.message),
                GetItem(IF env.message = "dict" THEN "absent" ELSE env.message, "content"), <<>>)
    ELSE IF env.content # "str"
    THEN Raised("AttributeError",
                (IF env.content = "null" THEN "'NoneType'" ELSE "'int'")
                    \o " object has no attribute 'strip'", <<>>)
    ELSE Returned(strip(env.text), <<>>)

-----------------------------------------------------------------------------
(* summarize_email, from the 200 response on.                               *)

\* the three APIResponse of the content checks
EmptyResponse ==
    APIResponse(ErrEmptyResponse, "error", RiskEmptyResponse,
                "API returned empty or invalid response", NoLinks)

MissingFields ==
    APIResponse(ErrInvalidFormat, "error", RiskFormatError,
                "API response missing required fields", NoLinks)

Success(content, link_scan_results) ==
    LET parsed == parsed_data(content)
        risk_level == NormalizeRisk(parsed[2])
    IN  APIResponse(parsed[1], "success", risk_level \o Dash \o parsed[3],
                    None, link_scan_results)

\* `if not content:` is in sampleSummary.py only
ChecksEmpty(v) == v = "sample"

\* from the required-fields check to the return
CheckAndParse(v, text, link_scan_results, stages) ==
    IF ChecksEmpty(v) /\ text = <<>>
    THEN Returned(EmptyResponse, stages \o <<"clean", "empty">>)
    ELSE IF ~HasRequiredFields(text)
    THEN Returned(MissingFields,
                  stages \o (IF ChecksEmpty(v) THEN <<"clean", "empty", "required">>
                             ELSE <<"clean", "required">>))
    ELSE Returned(Success(text, link_scan_results),
                  stages \o (IF ChecksEmpty(v) THEN <<"clean", "empty", "required">>
                             ELSE <<"clean", "required">>)
                         \o <<"extract", "normalize">>)

\* from clean_response to the return
ProcessContent(v, raw, link_scan_results, stages) ==
    LET text == clean_response(raw)
    IN  [CheckAndParse(v, text, link_scan_results, stages)
            EXCEPT !.raw_content = raw, !.content = text]

\* validate_response is in main.py only
ValidatesEnvelope(v) == v = "main"

\* the branch `if response.status_code == 200:`
\* body.json is FALSE when response.json() cannot parse the body
On200(v, body, link_scan_results) ==
    IF ~body.json
    THEN Raised("JSONDecodeError", "Expecting value: line 1 column 1 (char 0)", <<"json">>)
    ELSE LET error == IF ValidatesEnvelope(v) THEN validate_response(body.env)
                      ELSE Returned(None, <<>>)
             raw == RawContent(body.env)
             before == IF ValidatesEnvelope(v) THEN <<"json", "validate">>
                       ELSE <<"json">>
         IN  IF error.raised
             THEN [error EXCEPT !.stages = before]
             ELSE IF error.value # None
             THEN Returned(APIResponse(<<>>, "error", <<>>, error.value, NoLinks),
                           before)
             ELSE IF raw.raised
             THEN [raw EXCEPT !.stages = before \o <<"content">>]
             ELSE ProcessContent(v, raw.value, link_scan_results,
                                 before \o <<"content">>)

\* the branch `else:` of the status test
OnNot200(status_code, text) ==
    Returned(APIResponse(<<>>, "error", <<>>,
                         "API Error: " \o ToString(status_code) \o " - " \o text,
                         NoLinks), <<>>)

\* the exception classes of the model, all of them subclasses of Exception
TimeoutClasses == {"ConnectTimeout", "ReadTimeout"}
RequestExceptions == TimeoutClasses \cup {"RetryError", "ConnectionError", "ChunkedEncodingError"}
ExceptionClasses ==
    RequestExceptions \cup {"JSONDecodeError", "TypeError", "KeyError", "IndexError", "AttributeError"}

\* the last handler: `except Exception as e`
CaughtByRequestException(cls) == cls \in RequestExceptions

CaughtByException(cls) == cls \in ExceptionClasses

\* sampleSummary.py: timeout_type, then error_msg with timeout_type.capitalize()
TimeoutMessage(cls) ==
    (IF cls = "ConnectTimeout" THEN "Connection" ELSE "Read")
        \o " timeout occurred. Please try again."

\* the APIResponse of an except clause
FailureWithPlaceholder(error) ==
    APIResponse(ErrInvalidFormat, "error", RiskFormatError, error, NoLinks)

Failure(error) == APIResponse(<<>>, "error", <<>>, error, NoLinks)

\* sampleSummary.py has the handlers for Timeout and RetryError, main.py has not
HasTypedHandlers(v) == v = "sample"

\* the except clauses: the APIResponse for an exception raised in the try
\* block, or the exception again when no clause catches it
Except(v, r) ==
    IF ~r.raised THEN r
    ELSE IF HasTypedHandlers(v) /\ r.cls \in TimeoutClasses
    THEN Returned(Failure(TimeoutMessage(r.cls)), r.stages)
    ELSE IF HasTypedHandlers(v) /\ r.cls = "RetryError"
    THEN Returned(Failure("Service temporarily unavailable. Please try again later."),
                  r.stages)
    ELSE IF CaughtByException(r.cls)
    THEN Returned(Failure("Request failed: " \o r.msg), r.stages)
    ELSE r

-----------------------------------------------------------------------------
(* The outbound call: session.post through the HTTPAdapter whose            *)
(* max_retries is retry_strategy.                                           *)

\* Retry(total=2, ...)
RetryTotal == 2

\* status_forcelist=[429, 500, 502, 503, 504]
status_forcelist == {429, 500, 502, 503, 504}

\* respect_retry_after_header=True: the statuses on which urllib3 honours a
\* Retry-After header
RETRY_AFTER_STATUS_CODES == {413, 429, 503}

\* what one POST can meet: a response, or a failure of the transport
Response(status_code, retry_after, text, body) ==
    [kind |-> "response", status_code |-> status_code, retry_after |-> retry_after,
     text |-> text, body |-> body]

NoBody == [json |-> FALSE, env |-> WellFormed(<<>>)]

Failed(kind) ==
    [kind |-> kind, status_code |-> 0, retry_after |-> FALSE, text |-> "",
     body |-> NoBody]

\* the failures urllib3 counts against `total` and retries: errors while
\* connecting, and errors while reading when the method is in allowed_methods
\* (POST is)
RetriedFailures == {"connect_timeout", "connection_error", "read_timeout"}

\* Retry.is_retry for the POST, with `left` retries left
is_retry_always(status_code, has_retry_after, left) == status_code # 200

is_retry(status_code, has_retry_after, left) ==
    \/ status_code \in status_forcelist
    \/ /\ left # 0
       /\ has_retry_after
       /\ status_code \in RETRY_AFTER_STATUS_CODES

\* the retries left before the attempt number n is counted
RetriesLeft(n) == RetryTotal - (n - 1)

\* the attempt is counted against `total`
Retried(ev, left) ==
    \/ ev.kind \in RetriedFailures
    \/ ev.kind = "response" /\ is_retry(ev.status_code, ev.retry_after, left)

\* Retry.is_exhausted after the attempt was counted
Exhausted(left) == left - 1 < 0

\* the classes of the exception session.post can raise when the last attempt
\* met ev: requests turns urllib3's MaxRetryError into RetryError (too many
\* bad statuses, raise_on_status=True), ConnectTimeout or ConnectionError; a
\* read timeout is a ReadTimeout when urllib3 raises it bare and a
\* ConnectionError when it comes inside a MaxRetryError.
RaisedClasses(ev) ==
    CASE ev.kind = "response" -> {"RetryError"}
      [] ev.kind = "connect_timeout" -> {"ConnectTimeout"}
      [] ev.kind = "connection_error" -> {"ConnectionError"}
      [] ev.kind = "read_timeout" -> {"ReadTimeout", "ConnectionError"}
      [] OTHER -> {"ChunkedEncodingError"}

\* str(e) of that exception
RaisedText(ev) ==
    CASE ev.kind = "response" ->
            "Max retries exceeded (Caused by ResponseError('too many "
                \o ToString(ev.status_code) \o " error responses'))"
      [] ev.kind = "connect_timeout" ->
            "Max retries exceeded (Caused by ConnectTimeoutError('Connection timed out. (connect timeout=5.0)'))"
      [] ev.kind = "connection_error" ->
            "Max retries exceeded (Caused by NewConnectionError('Failed to establish a new connection'))"
      [] ev.kind = "read_timeout" ->
            "Read timed out. (read timeout=60.0)"
      [] OTHER -> "Connection broken: IncompleteRead"

-----------------------------------------------------------------------------
(* The inputs of the model.                                                 *)

\* the longest reply, in lines, and the longest text, in pieces, that the
\* model draws
MaxLines == 4
MaxPieces == 7
MaxWords == 4

RECURSIVE Join(_, _)
Join(ls, sep) ==
    IF ls = <<>> THEN <<>>
    ELSE IF Len(ls) = 1 THEN ls[1]
    ELSE ls[1] \o sep \o Join(Tail(ls), sep)

RECURSIVE Concat(_)
Concat(ps) == IF ps = <<>> THEN <<>> ELSE Head(ps) \o Concat(Tail(ps))

\* the sequences of at most n elements of S
UpTo(S, n) == UNION {[1..k -> S] : k \in 0..n}

\* replies of the completion API, line by line: a value, no value, two
\* values for one field, the markers inside a line
ReplyLines ==
    { SUMMARY \o <<" ", "a">>,
      SUMMARY \o <<" ", "b">>,
      SUMMARY \o <<" ">>,
      RISK_LEVEL \o <<" ">> \o LOW,
      RISK_DETAILS \o <<" ", "o", "k">>,
      <<"x", " ">> \o SUMMARY \o RISK_LEVEL \o RISK_DETAILS }

GeneratedReplies == {Join(ls, <<"\n">>) : ls \in UpTo(ReplyLines, MaxLines)}

\* a reply with the three fields
Reply(summary, level, details) ==
    Join(<<SUMMARY \o <<" ">> \o summary, RISK_LEVEL \o <<" ">> \o level,
           RISK_DETAILS \o <<" ">> \o details>>, <<"\n">>)

\* replies that one inquiry of the whole handler may meet
SampleReplies ==
    { THINK \o <<"r">> \o ETHINK \o Reply(<<"a">>, HIGH, <<"o", "k">>),
      Reply(<<>>, HIGH \o <<".">>, <<"o", "k">>),
      SUMMARY \o <<" ", "a", "\n">> \o RISK_DETAILS \o <<" ", "o", "k">>,
      <<" ", "<", "b", ">", "\n">> }

\* envelopes that break the shape at each place
MalformedEnvelopes ==
    { Envelope("list", "absent", "dict", "absent", "absent", <<>>),
      Envelope("null", "absent", "dict", "absent", "absent", <<>>),
      Envelope("dict", "absent", "dict", "absent", "absent", <<>>),
      Envelope("dict", "dict", "dict", "absent", "absent", <<>>),
      Envelope("dict", "null", "dict", "absent", "absent", <<>>),
      Envelope("dict", "empty_list", "dict", "absent", "absent", <<>>),
      Envelope("dict", "list", "null", "absent", "absent", <<>>),
      Envelope("dict", "list", "str", "absent", "absent", <<>>),
      Envelope("dict", "list", "dict", "absent", "absent", <<>>),
      Envelope("dict", "list", "dict", "null", "absent", <<>>),
      Envelope("dict", "list", "dict", "str", "absent", <<>>),
      Envelope("dict", "list", "dict", "dict", "absent", <<>>),
      Envelope("dict", "list", "dict", "dict", "null", <<>>),
      Envelope("dict", "list", "dict", "dict", "int", <<>>) }

SampleBodies ==
    {NoBody}
    \cup {[json |-> TRUE, env |-> e] : e \in MalformedEnvelopes}
    \cup {[json |-> TRUE, env |-> WellFormed(t)] : t \in SampleReplies}

\* what an attempt of the whole handler may meet
Texts == {"", "quota exceeded"}

SampleEvents ==
    {Response(200, FALSE, "", b) : b \in SampleBodies}
    \cup {Response(st, FALSE, t, NoBody) : st \in {404, 413}, t \in Texts}
    \cup {Response(st, FALSE, "", NoBody) : st \in {429, 500, 503}}
    \cup {Response(413, TRUE, "", NoBody)}
    \cup {Failed(k) : k \in {"connect_timeout", "connection_error", "read_timeout",
                            "broken_body"}}

\* inquiries: every field there, or one field empty, or one field missing
ClickBody ==
    <<"C", "l", "i", "c", "k", " ">> \o HTTP_
        \o <<"e", "x", "a", "m", "p", "l", "e", ".", "c", "o", "m", "/", "p", "a", "y">>
        \o <<" ", "n", "o", "w">>

TwiceBody ==
    HTTPS_ \o <<"a", " ">> \o HTTP_ \o <<"b", "\n">> \o HTTPS_ \o <<"a">>

EmailRequest(subject, sender, recipient, body) ==
    [subject |-> subject, sender |-> sender, recipient |-> recipient, body |-> body]

RequiredFields == {"subject", "sender", "recipient", "body"}

FullInquiries ==
    {EmailRequest(<<"s">>, <<"f">>, <<"t">>, b) : b \in {<<"h", "i">>, ClickBody}}

Inquiries ==
    FullInquiries
    \cup {[EmailRequest(<<"s">>, <<"f">>, <<"t">>, <<"h", "i">>) EXCEPT ![f] = x] :
            f \in RequiredFields, x \in {<<>>, Missing}}

\* the links of the inquiries, for the choice of what validators.url accepts
KnownLinks == {l \in UNION {{extract_links(e.body)[i] : i \in 1..Len(extract_links(e.body))} :
                            e \in FullInquiries} : TRUE}

-----------------------------------------------------------------------------
(* One inquiry.                                                             *)

\* data, the payload of the POST, as far as validate_payload reads it
Payload(e) ==
    [model |-> "gpt-3.5-turbo",
     messages |-> <<[role |-> "system", content |-> "instructions"],
                    [role |-> "user", content |-> e]>>]

\* validate_payload(data)
validate_payload(data) ==
    /\ {"model", "messages"} \subseteq DOMAIN data
    /\ \A i \in 1..Len(data.messages) :
          {"role", "content"} \subseteq DOMAIN data.messages[i]

\* pydantic's check of the request body against EmailRequest: the four
\* fields are `str` without a default, so each must be there; any str passes
EmailRequestValid(e) ==
    \A f \in RequiredFields : e[f] # Missing

\* app.py: `if not all([subject, sender, recipient, body])`
FormFilled(e) ==
    \A f \in RequiredFields : e[f] # <<>>

\* links = extract_links(email.body); link_scan_results = scan_links(links)
\* sampleSummary.py has neither, and its APIResponse has no such field
ScansLinks(v) == v = "main"

LinkScan(v, e) ==
    IF ScansLinks(v)
    THEN SomeLinks(scan_links(extract_links(e.body), validators, validUrls))
    ELSE NoLinks

\* the handler runs up to session.post: the first POST leaves
Start(e, how) ==
    /\ email' = e
    /\ via' = how
    /\ IF variant = "main" /\ ~validate_payload(Payload(e))
       THEN /\ pc' = "done"
            /\ outcome' = Failure("Invalid payload structure.")
            /\ sends' = 0
       ELSE /\ pc' = "awaiting"
            /\ outcome' = NoOutcome
            /\ sends' = 1
    /\ UNCHANGED <<variant, validators, validUrls, history, escaped, trace, raw_content, cleaned, arg, ret>>

Reject(e, how) ==
    /\ email' = e
    /\ via' = how
    /\ pc' = "rejected"
    /\ UNCHANGED <<variant, validators, validUrls, sends, history, outcome,
                   escaped, trace, raw_content, cleaned, arg, ret>>

\* the form of app.py is submitted: every field is a str, maybe empty
SubmitForm(e) ==
    /\ pc = "idle"
    /\ \A f \in RequiredFields : e[f] # Missing
    /\ IF FormFilled(e) THEN Start(e, "ui") ELSE Reject(e, "ui")

\* a client posts JSON to /summarize itself
SubmitDirect(e) ==
    /\ pc = "idle"
    /\ IF EmailRequestValid(e) THEN Start(e, "direct") ELSE Reject(e, "direct")

\* what `history` keeps of an attempt: what the POST met and, of the body,
\* whether it is JSON, the types along the path to the content, and the text
Attempt(ev) ==
    [kind |-> ev.kind, status_code |-> ev.status_code,
     retry_after |-> ev.retry_after, text |-> ev.text,
     json |-> ev.body.json,
     shape |-> <<ev.body.env.top, ev.body.env.choices, ev.body.env.first,
                 ev.body.env.message, ev.body.env.content>>,
     reply |-> ev.body.env.text]

\* the attempt met ev and urllib3 sends the POST again
Resend(ev) ==
    /\ pc = "awaiting"
    /\ Retried(ev, RetriesLeft(sends))
    /\ ~Exhausted(RetriesLeft(sends))
    /\ sends' = sends + 1
    /\ history' = Append(history, Attempt(ev))
    /\ UNCHANGED <<variant, validators, validUrls, pc, email, via, outcome,
                   escaped, trace, raw_content, cleaned, arg, ret>>

\* what the try block of summarize_email does once session.post is over
TryBlock(v, e, ev, cls, left) ==
    IF ev.kind # "response" \/ Retried(ev, left)
    THEN Raised(cls, RaisedText(ev), <<>>)
    ELSE IF ev.status_code = 200
    THEN On200(v, ev.body, LinkScan(v, e))
    ELSE OnNot200(ev.status_code, ev.text)

\* the attempt met ev and session.post is over: the handler runs to its end
Finish(ev, cls) ==
    /\ pc = "awaiting"
    /\ Retried(ev, RetriesLeft(sends)) => Exhausted(RetriesLeft(sends))
    /\ cls \in RaisedClasses(ev)
    /\ \E r \in {Except(variant, TryBlock(variant, email, ev, cls, RetriesLeft(sends)))} :
           /\ escaped' = r.raised
           /\ outcome' = r.value
           /\ trace' = r.stages
           /\ raw_content' = r.raw_content
           /\ cleaned' = r.content
    /\ pc' = "done"
    /\ history' = Append(history, Attempt(ev))
    /\ UNCHANGED <<variant, validators, validUrls, email, via, sends, arg, ret>>

-----------------------------------------------------------------------------
(* The whole handler.                                                       *)

Init ==
    /\ variant \in {"main", "sample"}
    /\ validators \in BOOLEAN
    /\ validUrls \in SUBSET KnownLinks
    /\ variant = "sample" => ~validators
    /\ ~validators => validUrls = {}
    /\ pc = "idle"
    /\ email = EmailRequest(Missing, Missing, Missing, Missing)
    /\ via = "none"
    /\ sends = 0
    /\ history = <<>>
    /\ outcome = NoOutcome
    /\ escaped = FALSE
    /\ trace = <<>>
    /\ raw_content = <<>>
    /\ cleaned = <<>>
    /\ arg = <<>>
    /\ ret = <<>>

Next ==
    \/ \E e \in Inquiries : SubmitForm(e)
    \/ \E e \in Inquiries : SubmitDirect(e)
    \/ \E ev \in SampleEvents : Resend(ev)
    \/ \E ev \in SampleEvents : \E cls \in RaisedClasses(ev) : Finish(ev, cls)

Spec == Init /\ [][Next]_vars

-----------------------------------------------------------------------------
(* The handler on a 200 response with a well-formed envelope, for the       *)
(* replies of GeneratedReplies: the state is the one an accepted inquiry    *)
(* is in after its first POST.                                              *)

OK200(text) == Response(200, FALSE, "", [json |-> TRUE, env |-> WellFormed(text)])

InitReply ==
    /\ variant \in {"main", "sample"}
    /\ validators = FALSE
    /\ validUrls = {}
    /\ pc = "awaiting"
    /\ email = EmailRequest(<<"s">>, <<"f">>, <<"t">>, <<"h", "i">>)
    /\ via = "direct"
    /\ sends = 1
    /\ history = <<>>
    /\ outcome = NoOutcome
    /\ escaped = FALSE
    /\ trace = <<>>
    /\ raw_content = <<>>
    /\ cleaned = <<>>
    /\ arg = <<>>
    /\ ret = <<>>

NextReply ==
    \E text \in GeneratedReplies : Finish(OK200(text), "RetryError")

SpecReply == InitReply /\ [][NextReply]_vars

-----------------------------------------------------------------------------
(* clean_response applied to the texts made of at most MaxPieces pieces.    *)

CleanPieces == {THINK, <<"<">>, <<">">>, <<"a">>, <<"\r", "\n">>}

CleanInputs == {Concat(ps) : ps \in UpTo(CleanPieces, MaxPieces)}

Idle ==
    /\ email = EmailRequest(Missing, Missing, Missing, Missing)
    /\ via = "none"
    /\ sends = 0
    /\ history = <<>>
    /\ outcome = NoOutcome
    /\ escaped = FALSE
    /\ trace = <<>>
    /\ raw_content = <<>>
    /\ cleaned = <<>>

InitClean ==
    /\ Idle
    /\ variant = "main"
    /\ validators = FALSE
    /\ validUrls = {}
    /\ pc = "clean"
    /\ arg \in CleanInputs
    /\ ret = <<>>

CallClean ==
    /\ pc = "clean"
    /\ ret' = clean_response(arg)
    /\ pc' = "cleaned"
    /\ UNCHANGED <<variant, validators, validUrls, email, via, sends, history,
                   outcome, escaped, trace, raw_content, cleaned, arg>>

SpecClean == InitClean /\ [][CallClean]_vars

-----------------------------------------------------------------------------
(* scan_links(extract_links(body)) applied to the bodies made of at most    *)
(* MaxWords words, with and without the validators library.                 *)

BodyWords ==
    { HTTP_ \o <<"a">>,
      HTTP_ \o <<"b">>,
      HTTPS_ \o <<"a">>,
      HTTPS_,
      <<"a">>,
      <<"x">> \o HTTP_ \o <<"a">> \o HTTP_ \o <<"b">> }

LinkBodies ==
    {Join(ws, <<" ">>) : ws \in UpTo(BodyWords, MaxWords)} \cup {ClickBody, TwiceBody}

CandidateUrls == {HTTP_ \o <<"a">>, HTTPS_ \o <<"a">>}

InitLinks ==
    /\ Idle
    /\ variant = "main"
    /\ validators \in BOOLEAN
    /\ validUrls \in SUBSET CandidateUrls
    /\ ~validators => validUrls = {}
    /\ pc = "scan"
    /\ arg \in LinkBodies
    /\ ret = <<>>

CallScan ==
    /\ pc = "scan"
    /\ ret' = scan_links(extract_links(arg), validators, validUrls)
    /\ pc' = "scanned"
    /\ UNCHANGED <<variant, validators, validUrls, email, via, sends, history,
                   outcome, escaped, trace, raw_content, cleaned, arg>>

SpecLinks == InitLinks /\ [][CallScan]_vars

-----------------------------------------------------------------------------
(* The handler on a 200 response whose reply has the three fields, for the  *)
(* values a model may give them.                                            *)

SummaryValues == {<<"a">>, <<"a", " ", "b">>, <<>>}

RiskValues ==
    { LOW, MEDIUM, HIGH, UNKNOWN,
      <<"l", "o", "w">>,
      <<"H", "i", "g", "h">>,
      HIGH \o <<".">>,
      LOW \o <<"|">> \o MEDIUM \o <<"|">> \o HIGH,
      MEDIUM \o <<" ">>,
      LOW \o <<" ", "R", "I", "S", "K">>,
      <<>> }

DetailValues == {<<"o", "k">>, <<>>}

NextRisk ==
    \E s \in SummaryValues, l \in RiskValues, d \in DetailValues :
        Finish(OK200(Reply(s, l, d)), "RetryError")

SpecRisk == InitReply /\ [][NextRisk]_vars

-----------------------------------------------------------------------------
(* The handler on replies of three fields whose values hold marker texts.   *)

See == <<"s", "e", "e", " ">>
Below == <<" ", "b", "e", "l", "o", "w">>

\* values of a field: plain, or with a marker inside
LineValues ==
    { <<"a">>,
      See \o SUMMARY \o Below,
      See \o RISK_DETAILS \o Below,
      SUMMARY,
      RISK_DETAILS \o <<" ", "o", "k">> }

LineLevels == {LOW, HIGH, LOW \o <<" ">> \o RISK_LEVEL, HIGH \o <<" ">> \o SUMMARY}

NextLine ==
    \E s \in LineValues, l \in LineLevels, d \in LineValues :
        Finish(OK200(Reply(s, l, d)), "RetryError")

SpecLine == InitReply /\ [][NextLine]_vars

-----------------------------------------------------------------------------
(* The handler on replies '<think>' R '</think>' A, and the summary the UI  *)
(* shows of them.                                                           *)

\* app.py, clean_summary(summary)
clean_summary(summary) ==
    strip(IF Contains(summary, THINK) THEN strip(LastPiece(summary)) ELSE summary)

\* scenario B
Reasoning_B ==
    <<"r", "e", "a", "s", "o", "n", "i", "n", "g", ".", ".", ".">>

Summary_B ==
    <<"W", "i", "r", "e", " ", "t", "r", "a", "n", "s", "f", "e", "r", " ",
      "r", "e", "q", "u", "e", "s", "t">>

Details_B ==
    <<"U", "r", "g", "e", "n", "t", " ", "f", "i", "n", "a", "n", "c", "i",
      "a", "l", " ", "r", "e", "q", "u", "e", "s", "t", " ", "f", "r", "o",
      "m", " ", "u", "n", "k", "n", "o", "w", "n", " ", "s", "e", "n", "d",
      "e", "r">>

\* the reasoning R: nothing, one line with or without its end, a tag inside,
\* lines that start with a marker
Reasonings ==
    { <<>>,
      <<"r">>,
      <<"r", "\n">>,
      <<"r", " ", "<", "b", ">", "\n">>,
      SUMMARY \o <<" ", "r", "\n">>,
      RISK_LEVEL \o <<" ">> \o LOW,
      Reasoning_B }

AnswerSummaries == {<<"a">>, <<"a", " ", "b">>, Summary_B}
AnswerLevels == {LOW, MEDIUM, HIGH}
AnswerDetails == {<<"o", "k">>, Details_B}

\* '<think>' R '</think>' A
ThinkReply(reasoning, answer) == THINK \o reasoning \o ETHINK \o answer

Answer_B == Reply(Summary_B, HIGH, Details_B)

NextThink ==
    \E r \in Reasonings, s \in AnswerSummaries, l \in AnswerLevels,
       d \in AnswerDetails :
        Finish(OK200(ThinkReply(r, Reply(s, l, d))), "RetryError")

SpecThink == InitReply /\ [][NextThink]_vars

-----------------------------------------------------------------------------
(* Auxiliary definitions of the properties.                                 *)

\* the stage was executed
Reached(stage) == \E i \in 1..Len(trace) : trace[i] = stage

\* the inquiry is over and its APIResponse was returned
Done == pc = "done"

\* the last attempt
LastAttempt == history[Len(history)]

\* C1: summarize_email always ends by returning one APIResponse whose status
\* is "success" or "error", whatever the completion API does (200 with any
\* envelope or an unparseable body, any other status, timeouts, retries
\* exhausted, any other exception); no exception leaves the handler, and
\* nothing is returned before the end.
C1_AlwaysOutcome ==
    /\ ~escaped
    /\ Done => outcome.status \in {"success", "error"}
    /\ ~Done => outcome = NoOutcome
    /\ pc = "awaiting" => sends <= RetryTotal + 1

\* an exception raised inside validate_response was turned into an error
C1_Witness ==
    /\ Done
    /\ variant = "main"
    /\ outcome.status = "error"
    /\ outcome.error = "Request failed: argument of type 'NoneType' is not iterable"


\* the text lacks one of the three markers, read off the text itself
LacksMarker(text) ==
    \/ ~Contains(text, SUMMARY)
    \/ ~Contains(text, RISK_LEVEL)
    \/ ~Contains(text, RISK_DETAILS)

\* C2 as stated: for every cleaned content that lacks one of the substrings
\* 'SUMMARY:', 'RISK_LEVEL:', 'RISK_DETAILS:' the handler returns
\* status=error with the error 'API response missing required fields', and
\* reaches neither the extraction nor a success.
C2_Original ==
    (Done /\ Reached("clean") /\ LacksMarker(cleaned)) =>
        /\ outcome.status = "error"
        /\ outcome.error = "API response missing required fields"
        /\ ~Reached("extract")

\* C2 as amended: for every cleaned content that lacks one of the three
\* substrings the handler returns status=error and reaches neither the
\* extraction nor a success; the error is 'API response missing required
\* fields', except that sampleSummary.py answers an empty cleaned content
\* with 'API returned empty or invalid response'.
C2_MissingFields ==
    (Done /\ Reached("clean") /\ LacksMarker(cleaned)) =>
        /\ outcome.status = "error"
        /\ ~Reached("extract")
        /\ outcome.error =
              IF variant = "sample" /\ cleaned = <<>>
              THEN "API returned empty or invalid response"
              ELSE "API response missing required fields"

\* a reply with SUMMARY: and RISK_DETAILS: but no RISK_LEVEL: was refused
C2_Witness ==
    /\ Done
    /\ Contains(cleaned, SUMMARY)
    /\ Contains(cleaned, RISK_DETAILS)
    /\ ~Contains(cleaned, RISK_LEVEL)
    /\ outcome.error = "API response missing required fields"

\* the reply the handler received was made of these three values
MadeOf(s, l, d) == raw_content = strip(Reply(s, l, d))

\* what the claim says of a value: itself trimmed, or the default
Trimmed(value, default) == IF strip(value) = <<>> THEN default ELSE strip(value)

\* what the claim says of a level: itself if it is one of the four, or UNKNOWN
Level(value) ==
    IF Trimmed(value, UNKNOWN) \in {LOW, MEDIUM, HIGH, UNKNOWN}
    THEN Trimmed(value, UNKNOWN)
    ELSE UNKNOWN

\* C3: a reply with the three fields always gives status=success, and the
\* risk level of the outcome is the extracted RISK_LEVEL value when that is
\* exactly LOW, MEDIUM, HIGH or UNKNOWN and UNKNOWN for any other value
\* (other case, trailing punctuation, the echoed LOW|MEDIUM|HIGH);
\* risk_assessment is '<riskLevel> - <riskDetails>' with that level.
C3_RiskLevel ==
    Done =>
        \A s \in SummaryValues, l \in RiskValues, d \in DetailValues :
            MadeOf(s, l, d) =>
                /\ outcome.status = "success"
                /\ outcome.error = None
                /\ outcome.risk_assessment =
                      Level(l) \o <<" ", "-", " ">> \o Trimmed(d, NoDetails)

\* the echoed template LOW|MEDIUM|HIGH came out as a success with UNKNOWN
C3_Witness ==
    /\ Done
    /\ MadeOf(<<"a">>, LOW \o <<"|">> \o MEDIUM \o <<"|">> \o HIGH, <<"o", "k">>)
    /\ outcome.status = "success"
    /\ outcome.risk_assessment = UNKNOWN \o <<" ", "-", " ", "o", "k">>

\* the lines among ls that give the field f a value
ValueLines(ls, f) ==
    {i \in 1..Len(ls) :
        startswith(ls[i], Fields[f]) /\ FieldValue(ls[i], Fields[f]) # <<>>}

\* the last of them
LastOf(S) == CHOOSE i \in S : \A j \in S : j <= i

\* what the claim says the field f is, ls being the lines
LastValue(ls, f) ==
    IF ValueLines(ls, f) = {} THEN Defaults[f]
    ELSE FieldValue(ls[LastOf(ValueLines(ls, f))], Fields[f])

\* the three fields of a success, given what the claim says each field is
FieldsAre(summary, level, details) ==
    /\ outcome.summary = summary
    /\ outcome.risk_assessment =
          (IF level \in {LOW, MEDIUM, HIGH, UNKNOWN} THEN level ELSE UNKNOWN)
              \o <<" ", "-", " ">> \o details
    /\ summary # <<>>
    /\ level # <<>>
    /\ details # <<>>

\* C4: in every success outcome each field is the value of the last line
\* that starts with its marker and has a non-empty value; a line with an
\* empty value overwrites nothing; without such a line the field is its
\* default, so the three fields are always populated.
C4_LastValueWins ==
    (Done /\ outcome.status = "success") =>
        LET ls == Lines(cleaned)
        IN  FieldsAre(LastValue(ls, 1), LastValue(ls, 2), LastValue(ls, 3))

\* 'SUMMARY: a' came first, 'SUMMARY: b' and an empty 'SUMMARY: ' later
C4_Witness ==
    /\ Done
    /\ outcome.status = "success"
    /\ \E i, j, k \in 1..Len(Lines(cleaned)) :
          /\ i < j /\ j < k
          /\ Lines(cleaned)[i] = SUMMARY \o <<" ", "a">>
          /\ Lines(cleaned)[j] = SUMMARY \o <<" ", "b">>
          /\ Lines(cleaned)[k] = SUMMARY
    /\ outcome.summary = <<"b">>

\* the empty SUMMARY of scenario F fell back to the default
C4_WitnessDefault ==
    /\ Done
    /\ outcome.status = "success"
    /\ Lines(cleaned) = <<SUMMARY, RISK_LEVEL \o <<" ">> \o LOW,
                          RISK_DETAILS \o <<" ", "o", "k">>>>
    /\ outcome.summary = NoSummary


\* the places where '<think>' occurs in the text
ThinkAt(text) == {i \in 1..Len(text) : MatchAt(text, THINK, i)}

\* the text after the last occurrence of '<think>'
AfterLastThink(text) == From(text, LastOf(ThinkAt(text)) + Len(THINK))

\* the text has a tag: "<", one or more characters other than ">", ">"
HasTag(text) ==
    \E i, j \in 1..Len(text) :
        /\ text[i] = "<"
        /\ text[j] = ">"
        /\ j >= i + 2
        /\ \A k \in (i + 1)..(j - 1) : text[k] # ">"

\* s can be had from t by leaving characters out
RECURSIVE IsSubsequence(_, _)
IsSubsequence(s, t) ==
    IF s = <<>> THEN TRUE
    ELSE IF t = <<>> THEN FALSE
    ELSE IF Head(s) = Head(t) THEN IsSubsequence(Tail(s), Tail(t))
    ELSE IsSubsequence(s, Tail(t))

\* C5: for a raw content that contains '<think>', clean_response returns
\* only text from after the last '<think>' (it is what cleaning that text
\* alone gives, and no character comes from elsewhere), and what it returns
\* has no angle-bracket tag left, nested and adjacent brackets included.
C5_CleanAfterLastThink ==
    (pc = "cleaned" /\ ThinkAt(arg) # {}) =>
        /\ ~HasTag(ret)
        /\ IsSubsequence(ret, AfterLastThink(arg))
        /\ ret = clean_response(AfterLastThink(arg))

\* '<think><<a>a>' was cleaned to 'a>'
C5_Witness ==
    /\ pc = "cleaned"
    /\ arg = THINK \o <<"<", "<", "a", ">", "a", ">">>
    /\ ret = <<"a", ">">>


\* there is no whitespace in body[i..j]
NoSpace(body, i, j) == \A k \in i..j : body[k] \notin Whitespace

\* 'http://' or 'https://' stands at p and a non-whitespace character follows
SchemeAt(body, p) ==
    \E scheme \in {HTTP_, HTTPS_} :
        /\ MatchAt(body, scheme, p)
        /\ p + Len(scheme) <= Len(body)
        /\ body[p + Len(scheme)] \notin Whitespace

\* the places where a link starts: a scheme that is not inside the
\* non-whitespace run of a scheme before it
LinkStarts(body) ==
    {p \in 1..Len(body) :
        /\ SchemeAt(body, p)
        /\ ~\E q \in 1..(p - 1) : SchemeAt(body, q) /\ NoSpace(body, q, p)}

\* the link that starts at p: up to the next whitespace or the end
LinkFrom(body, p) ==
    SubSeq(body, p,
           CHOOSE e \in p..Len(body) :
               /\ NoSpace(body, p, e)
               /\ e = Len(body) \/ body[e + 1] \in Whitespace)

\* the first place where the link k starts
FirstStart(body, k) ==
    CHOOSE p \in LinkStarts(body) :
        /\ LinkFrom(body, p) = k
        /\ \A q \in LinkStarts(body) : LinkFrom(body, q) = k => p <= q

\* C8: the keys of the mapping are exactly the distinct links of the body
\* ('http://' or 'https://' and one or more non-whitespace characters), each
\* once, in the order of their first occurrence; every value is UNKNOWN
\* without the validators library, and with it SAFE for a link that passes
\* validators.url and INVALID for one that fails.
C8_LinkScan ==
    pc = "scanned" =>
        /\ {ret[i][1] : i \in 1..Len(ret)} = {LinkFrom(arg, p) : p \in LinkStarts(arg)}
        /\ \A i, j \in 1..Len(ret) :
              i < j => /\ ret[i][1] # ret[j][1]
                       /\ FirstStart(arg, ret[i][1]) < FirstStart(arg, ret[j][1])
        /\ \A i \in 1..Len(ret) :
              ret[i][2] = IF ~validators THEN "UNKNOWN"
                          ELSE IF ret[i][1] \in validUrls THEN "SAFE"
                          ELSE "INVALID"

\* scenario D: 'Click http://example.com/pay now' without the library
C8_Witness ==
    /\ pc = "scanned"
    /\ ~validators
    /\ arg = <<"C", "l", "i", "c", "k", " ", "h", "t", "t", "p", ":", "/", "/",
               "e", "x", "a", "m", "p", "l", "e", ".", "c", "o", "m", "/", "p",
               "a", "y", " ", "n", "o", "w">>
    /\ ret = << << <<"h", "t", "t", "p", ":", "/", "/", "e", "x", "a", "m", "p",
                     "l", "e", ".", "c", "o", "m", "/", "p", "a", "y">>,
                   "UNKNOWN" >> >>

\* a link that occurs twice is one key, and the library tells SAFE from INVALID
C8_WitnessTwice ==
    /\ pc = "scanned"
    /\ validators
    /\ arg = HTTP_ \o <<"a", " ">> \o HTTP_ \o <<"b", " ">> \o HTTP_ \o <<"a">>
    /\ ret = << <<HTTP_ \o <<"a">>, "SAFE">>, <<HTTP_ \o <<"b">>, "INVALID">> >>


\* a required field of the inquiry is missing or empty
Incomplete(e) == \E f \in RequiredFields : e[f] \in {Missing, <<>>}

\* C6: an inquiry in which subject, sender, recipient or body is missing or
\* empty is rejected before any POST to the completion API is sent.
C6_RejectsIncomplete ==
    (pc # "idle" /\ Incomplete(email)) => (pc = "rejected" /\ sends = 0)

\* what holds of the code: a missing field is rejected, and the form of the
\* UI rejects an empty one
C6_RejectsMissing ==
    /\ (pc # "idle" /\ \E f \in RequiredFields : email[f] = Missing)
          => (pc = "rejected" /\ sends = 0)
    /\ (pc # "idle" /\ via = "ui" /\ Incomplete(email))
          => (pc = "rejected" /\ sends = 0)

\* a direct request with an empty subject reached the completion API
C6_EmptySent ==
    /\ via = "direct"
    /\ email.subject = <<>>
    /\ sends >= 1

\* the outcome is an error
IsError == Done /\ outcome.status = "error"

\* the error message is there and is not empty
HasMessage(r) == r.error # None /\ r.error # ""

\* C7 as stated: every error outcome has an empty summary, an empty
\* risk_assessment and a non-empty error message.
C7_Original ==
    IsError =>
        /\ outcome.summary = <<>>
        /\ outcome.risk_assessment = <<>>
        /\ HasMessage(outcome)

\* C7: every error outcome has a non-empty error message; its summary and
\* risk_assessment are empty, except for the two outcomes of the content
\* checks: a content without the three markers gives the summary
\* "Error: Invalid response format" and the risk_assessment
\* "UNKNOWN - Response format error", and an empty content in sampleSummary.py
\* gives "Error: Empty response" and "UNKNOWN - Empty response".
C7_ErrorOutcome ==
    IsError =>
        /\ HasMessage(outcome)
        /\ IF Reached("empty") /\ cleaned = <<>>
           THEN /\ outcome.summary = ErrEmptyResponse
                /\ outcome.risk_assessment = RiskEmptyResponse
           ELSE IF Reached("required")
           THEN /\ LacksMarker(cleaned)
                /\ outcome.summary = ErrInvalidFormat
                /\ outcome.risk_assessment = RiskFormatError
           ELSE /\ outcome.summary = <<>>
                /\ outcome.risk_assessment = <<>>

\* main.py answered a reply without the markers with the placeholders
C7_Witness ==
    /\ IsError
    /\ variant = "main"
    /\ Reached("required")
    /\ outcome.summary = ErrInvalidFormat
    /\ outcome.error = "API response missing required fields"

\* a failure of the outbound call ended with empty summary and risk_assessment
C7_WitnessTransport ==
    /\ IsError
    /\ LastAttempt.kind = "connect_timeout"
    /\ outcome.summary = <<>>
    /\ outcome.risk_assessment = <<>>
    /\ HasMessage(outcome)


\* sampleSummary.py answered an empty content with its placeholders
C7_WitnessEmpty ==
    /\ IsError
    /\ variant = "sample"
    /\ Reached("empty")
    /\ outcome.summary = ErrEmptyResponse
    /\ outcome.error = "API returned empty or invalid response"

\* the attempts after which the POST was sent again
Resent == {i \in 1..Len(history) : i < sends}

\* the attempt met a response whose status is in {429, 500, 502, 503, 504}
Transient(a) == a.kind = "response" /\ a.status_code \in {429, 500, 502, 503, 504}

\* the attempt met a response with a Retry-After header and the status 413,
\* 429 or 503
AsksToWait(a) ==
    a.kind = "response" /\ a.retry_after /\ a.status_code \in {413, 429, 503}

\* the attempt failed while connecting or while reading the response
TransportFailure(a) == a.kind \in {"connect_timeout", "connection_error", "read_timeout"}

\* the error of a response that is neither 200 nor retried
ApiError(a) == "API Error: " \o ToString(a.status_code) \o " - " \o a.text

\* C9 as stated: the POST is sent again only after a response whose status is
\* in {429, 500, 502, 503, 504}, at most 2 times, so that at most 3 POSTs are
\* sent; a response with any other status than 200 is not retried and ends
\* the inquiry with status "error" and a message with the status and the text.
C9_Original ==
    /\ sends <= RetryTotal + 1
    /\ \A i \in Resent : Transient(history[i])
    /\ (Done /\ sends >= 1 /\ LastAttempt.kind = "response"
             /\ LastAttempt.status_code # 200 /\ ~Transient(LastAttempt))
          => /\ outcome.status = "error"
             /\ outcome.error = ApiError(LastAttempt)

\* C9: at most 3 POSTs are sent for an inquiry; the POST is sent again only
\* after a response whose status is in {429, 500, 502, 503, 504}, after a
\* response 413, 429 or 503 that has a Retry-After header, or after a failure
\* to connect or to read the response; an inquiry never ends on a response of
\* the five statuses before the third POST; every other response that is not
\* 200 ends the inquiry with status "error" and the message
\* "API Error: <status> - <text>".
C9_Retries ==
    /\ sends <= RetryTotal + 1
    /\ \A i \in Resent :
          Transient(history[i]) \/ AsksToWait(history[i]) \/ TransportFailure(history[i])
    /\ (Done /\ sends >= 1 /\ Transient(LastAttempt)) => sends = RetryTotal + 1
    /\ (Done /\ sends >= 1 /\ LastAttempt.kind = "response"
             /\ LastAttempt.status_code # 200 /\ ~Transient(LastAttempt))
          => /\ outcome.status = "error"
             /\ outcome.error = ApiError(LastAttempt)
             /\ AsksToWait(LastAttempt) => sends = RetryTotal + 1

\* three POSTs met 503 and the inquiry ended with an error
C9_Witness ==
    /\ Done
    /\ sends = 3
    /\ \A i \in 1..3 : history[i].kind = "response" /\ history[i].status_code = 503
    /\ outcome.status = "error"

\* a 404 ended the inquiry after one POST
C9_WitnessNotRetried ==
    /\ Done
    /\ sends = 1
    /\ LastAttempt.kind = "response"
    /\ LastAttempt.status_code = 404
    /\ outcome.error = "API Error: 404 - quota exceeded"

\* the POST was sent again after a read timeout
C9_ResentAfterTimeout ==
    /\ sends = 2
    /\ history[1].kind = "read_timeout"

\* the messages that name the connect phase, and those that name the read phase
ConnectMessages ==
    {"Connection timeout occurred. Please try again.",
     "Request failed: " \o RaisedText(Failed("connect_timeout"))}

ReadMessages ==
    {"Read timeout occurred. Please try again.",
     "Request failed: " \o RaisedText(Failed("read_timeout"))}

\* the message of the last handler, the one of any other exception
GenericMessage(a) == "Request failed: " \o RaisedText(a)

\* C10: an inquiry whose outbound call timed out ends with status "error" and
\* a message that names the phase: a connection timeout message for a connect
\* timeout, a message that mentions the read timeout for a read timeout; when
\* the retries on the five statuses are exhausted the error is one of its own,
\* not the message of a timeout nor the one of any other failed request.
C10_TimeoutsNamed ==
    (Done /\ sends >= 1) =>
        /\ LastAttempt.kind = "connect_timeout"
              => outcome.status = "error" /\ outcome.error \in ConnectMessages
        /\ LastAttempt.kind = "read_timeout"
              => outcome.status = "error" /\ outcome.error \in ReadMessages
        /\ Transient(LastAttempt)
              => /\ outcome.status = "error"
                 /\ outcome.error \notin ConnectMessages \cup ReadMessages
                 /\ outcome.error # GenericMessage(LastAttempt)

\* what holds of sampleSummary.py alone
C10_SampleOnly == variant = "sample" => C10_TimeoutsNamed

\* main.py ended an inquiry whose retries were exhausted with the message of
\* its last handler
C10_GenericOnExhaustion ==
    /\ Done
    /\ variant = "main"
    /\ sends = 3
    /\ Transient(LastAttempt)
    /\ outcome.error = GenericMessage(LastAttempt)


\* the envelope the last attempt met
LastEnvelope ==
    Envelope(LastAttempt.shape[1], LastAttempt.shape[2], LastAttempt.shape[3],
             LastAttempt.shape[4], LastAttempt.shape[5], LastAttempt.reply)

\* the last attempt met a 200 response whose body is JSON
Got200 ==
    /\ Done
    /\ sends >= 1
    /\ LastAttempt.kind = "response"
    /\ LastAttempt.status_code = 200
    /\ LastAttempt.json

\* the envelope breaks the required shape: not a mapping; 'choices' absent,
\* not a list or empty; the first choice without a 'message' mapping; the
\* message without 'content'; or a content that is not a string
Malformed(env) ==
    \/ env.top # "dict"
    \/ env.choices # "list"
    \/ env.first # "dict"
    \/ env.message # "dict"
    \/ env.content # "str"

\* the messages that state a requirement on the shape of the envelope
ShapeMessages ==
    {"Response must be a dictionary.",
     "Response must contain a 'choices' field with a list.",
     "The 'choices' list is empty.",
     "The first choice must contain a 'message' field with 'content'."}

\* C11: a 200 response whose envelope breaks the required shape is answered
\* with status "error" and a message that states which requirement on the
\* shape failed, and the handler neither cleans its content nor extracts
\* fields from it.
C11_MalformedEnvelope ==
    (Got200 /\ Malformed(LastEnvelope)) =>
        /\ outcome.status = "error"
        /\ outcome.error \in ShapeMessages
        /\ ~Reached("clean")
        /\ ~Reached("extract")

\* what holds of the code: the answer is an error and nothing is cleaned or
\* extracted; main.py states the requirement where the envelope is not a
\* mapping, 'choices' is not a non-empty list, or a mapping lacks its key
C11_ErrorWithoutCleaning ==
    (Got200 /\ Malformed(LastEnvelope)) =>
        /\ outcome.status = "error"
        /\ ~Reached("clean")
        /\ ~Reached("extract")
        /\ (/\ variant = "main"
            /\ ~validate_response(LastEnvelope).raised
            /\ validate_response(LastEnvelope).value # None)
              => outcome.error \in ShapeMessages

\* main.py answered a content that is null with the text of an AttributeError
C11_NullContent ==
    /\ Got200
    /\ variant = "main"
    /\ LastAttempt.shape = <<"dict", "list", "dict", "dict", "null">>
    /\ outcome.error = "Request failed: 'NoneType' object has no attribute 'strip'"

\* main.py answered an envelope without 'choices' with the requirement
C11_NoChoices ==
    /\ Got200
    /\ variant = "main"
    /\ LastAttempt.shape[2] = "absent"
    /\ outcome.error = "Response must contain a 'choices' field with a list."


\* the handler cleaned the content of the reply and nothing was left
CleanedToEmpty == Done /\ Reached("clean") /\ cleaned = <<>>

\* C12: a content that is empty after cleaning is answered with the error of
\* the empty response, status "error"; the test comes before the one of the
\* required fields and its error is not the one of the missing fields.
C12_EmptyResponse ==
    CleanedToEmpty =>
        /\ outcome.status = "error"
        /\ outcome.error = "API returned empty or invalid response"
        /\ outcome.error # MissingFields.error
        /\ ~Reached("required")

\* what holds of sampleSummary.py alone
C12_SampleOnly == variant = "sample" => C12_EmptyResponse

\* main.py answered a reply of whitespace and a tag with the error of the
\* missing fields
C12_MainMissingFields ==
    /\ CleanedToEmpty
    /\ variant = "main"
    /\ LastAttempt.reply = <<" ", "<", "b", ">", "\n">>
    /\ Reached("required")
    /\ outcome = MissingFields


\* the reply the last attempt met is the one of the three values
ReplyOf(s, l, d) == Done /\ LastAttempt.reply = Reply(s, l, d)

\* C13: the value of a line that starts with a marker is the rest of the line
\* after that leading marker, trimmed, and the rest is kept as it is, also
\* where the text of the marker occurs again in it: 'SUMMARY: see SUMMARY:
\* below' gives the summary 'see SUMMARY: below'.
C13_RemainderKept ==
    \A s \in LineValues, l \in LineLevels, d \in LineValues :
        ReplyOf(s, l, d) =>
            /\ outcome.status = "success"
            /\ outcome.summary = Trimmed(s, NoSummary)
            /\ outcome.risk_assessment =
                  Level(l) \o <<" ", "-", " ">> \o Trimmed(d, NoDetails)

\* what holds of the code: every occurrence of the marker of the line is
\* removed from the line, and an occurrence of another marker is kept
C13_EveryOccurrenceRemoved ==
    \A s \in LineValues, l \in LineLevels, d \in LineValues :
        ReplyOf(s, l, d) =>
            /\ outcome.status = "success"
            /\ outcome.summary = Trimmed(replace(s, SUMMARY, <<>>), NoSummary)
            /\ outcome.risk_assessment =
                  Level(replace(l, RISK_LEVEL, <<>>)) \o <<" ", "-", " ">>
                      \o Trimmed(replace(d, RISK_DETAILS, <<>>), NoDetails)

\* 'SUMMARY: see SUMMARY: below' gave the summary 'see  below'
C13_SeeBelow ==
    /\ ReplyOf(See \o SUMMARY \o Below, LOW, <<"a">>)
    /\ outcome.summary = <<"s", "e", "e", " ", " ", "b", "e", "l", "o", "w">>

\* a marker of another field inside the value was kept
C13_OtherMarkerKept ==
    /\ ReplyOf(See \o RISK_DETAILS \o Below, HIGH, <<"a">>)
    /\ outcome.summary = See \o RISK_DETAILS \o Below


\* the reply the last attempt met is '<think>' r '</think>' and the answer
\* of the three values
ThinkReplyOf(r, s, l, d) ==
    Done /\ LastAttempt.reply = ThinkReply(r, Reply(s, l, d))

\* the answer came out: the cleaned content is the answer, and the outcome
\* and the summary the UI shows are the ones of its three values
AnswerCameOut(s, l, d) ==
    /\ cleaned = Reply(s, l, d)
    /\ outcome.status = "success"
    /\ outcome.summary = s
    /\ outcome.risk_assessment = l \o <<" ", "-", " ">> \o d
    /\ clean_summary(outcome.summary) = s

\* C14: of a reply '<think>' R '</think>' A, A being an answer of three
\* fields, cleaning removes the markers and R: the cleaned content is A, and
\* summary, risk level and risk details are those of A; scenario B gives HIGH
\* and the summary 'Wire transfer request'.
C14_ThinkRemoved ==
    \A r \in Reasonings, s \in AnswerSummaries, l \in AnswerLevels,
       d \in AnswerDetails :
        ThinkReplyOf(r, s, l, d) => AnswerCameOut(s, l, d)

\* what holds of the code for the reply of r and the three values: the
\* cleaned content is R without its tags, then A; level and details are the
\* ones of A; the summary is the one of A when R is empty or ends its line
ReasoningStays(r, s, l, d) ==
    /\ cleaned = clean_response(r \o Reply(s, l, d))
    /\ outcome.status = "success"
    /\ outcome.risk_assessment = l \o <<" ", "-", " ">> \o d
    /\ (r = <<>> \/ r[Len(r)] = "\n") => outcome.summary = s
    /\ clean_summary(outcome.summary) = outcome.summary

C14_ReasoningKept ==
    \A r \in Reasonings, s \in AnswerSummaries, l \in AnswerLevels,
       d \in AnswerDetails :
        ThinkReplyOf(r, s, l, d) => ReasoningStays(r, s, l, d)

\* scenario B came out with the risk level HIGH, the reasoning in the
\* cleaned content and the default summary
C14_ScenarioB ==
    /\ ThinkReplyOf(Reasoning_B, Summary_B, HIGH, Details_B)
    /\ cleaned = Reasoning_B \o Answer_B
    /\ outcome.summary = NoSummary
    /\ outcome.risk_assessment = HIGH \o <<" ", "-", " ">> \o Details_B

\* with no reasoning between the markers the answer came out
C14_EmptyReasoning ==
    /\ ThinkReplyOf(<<>>, <<"a">>, HIGH, <<"o", "k">>)
    /\ AnswerCameOut(<<"a">>, HIGH, <<"o", "k">>)

====
